---- MODULE Spec2Model ----
(***************************************************************************)
(* Model of api.py: the POST /run handler of the PageIndex API.            *)
(*                                                                         *)
(* Requests are coroutines on one asyncio event loop: a handler runs       *)
(* without interruption between its two awaits (file.read() and the        *)
(* executor future).  page_index_main runs on a worker thread, concurrent  *)
(* with whatever the event loop is doing.  The file system is the set of   *)
(* temporary directories and the staged files in them.                     *)
(***************************************************************************)
EXTENDS Naturals, Sequences, FiniteSets, TLC

VARIABLES
    pc,         \* position of each request's handler
    running,    \* the handler the event loop is executing, or NoRequest
    upload,     \* the UploadFile of each request: filename and body
    filename,   \* local: file.filename or "unknown"
    content,    \* local: the bytes file.read() returned
    temp_dir,   \* local: None or the directory mkdtemp returned
    temp_path,  \* local: None or os.path.join(temp_dir, safe_name)
    exc,        \* the exception propagating in the handler, if any
    retval,     \* the Response the handler is returning, if any
    response,   \* what the client received
    dirs,       \* file system: existing temporary directories
    files,      \* file system: the files in them, each a path and its bytes
    job,        \* the executor job running page_index_main
    seen,       \* what page_index_main read from the path it was given
    result,     \* what page_index_main returned or raised
    hist        \* history per request: calls made, pending outcome at cleanup

vars == <<pc, running, upload, filename, content, temp_dir, temp_path, exc,
          retval, response, dirs, files, job, seen, result, hist>>

----------------------------------------------------------------------------
(* Bounds of the model *)

\* longest stem put in front of a suffix to build the filenames of SpecSan
MaxStemLen == 2

----------------------------------------------------------------------------
(* Values *)

Requests == {"r1", "r2"}
NoRequest == "none"
None == "None"

\* characters filenames are made of
Letters == {"a", "b", "d", "f", "k", "l", "n", "o", "p", "t", "u", "w", "x",
            "A", "D", "F", "P"}
Digits == {"1"}
Punct == {".", "_", "-", " "}
\* a path separator and a control character, which the filter of line 65 drops
Unsafe == {"/", "\n"}

\* str.isalnum() of one character
IsAlnum(c) == c \in Letters \cup Digits

\* str.lower() of one character
LowerChar(c) ==
    CASE c = "A" -> "a"
      [] c = "D" -> "d"
      [] c = "F" -> "f"
      [] c = "P" -> "p"
      [] OTHER -> c

\* str.lower()
Lower(s) == [i \in 1..Len(s) |-> LowerChar(s[i])]

\* str.endswith(suffix)
EndsWith(s, suffix) ==
    /\ Len(s) >= Len(suffix)
    /\ SubSeq(s, Len(s) - Len(suffix) + 1, Len(s)) = suffix

DotPdf == <<".", "p", "d", "f">>
Unknown == <<"u", "n", "k", "n", "o", "w", "n">>
UploadPdf == <<"u", "p", "l", "o", "a", "d", ".", "p", "d", "f">>

FilenameOrUnknown_Pdf(f) ==
    IF f.present /\ f.text # <<>> THEN f.text ELSE Unknown \o DotPdf

\* file.filename or "unknown": None and "" are both falsy
FilenameOrUnknown(f) ==
    IF f.present /\ f.text # <<>> THEN f.text ELSE Unknown

\* filename.lower().endswith(".pdf")
HasPdfExtension(fn) == EndsWith(Lower(fn), DotPdf)

\* c.isalnum() or c in "._- "
IsSafeChar(c) == IsAlnum(c) \/ c \in Punct

KeepAll(fn) == IF fn = <<>> THEN UploadPdf ELSE fn

\* "".join(c for c in filename if ...) or "upload.pdf"
KeepSafe(fn) ==
    LET kept == SelectSeq(fn, IsSafeChar)
    IN  IF kept = <<>> THEN UploadPdf ELSE kept

\* safe_name as computed by lines 65-67
SafeName(fn) ==
    LET name == KeepSafe(fn)
    IN  IF HasPdfExtension(name) THEN name ELSE name \o DotPdf

\* os.path.join(temp_dir, safe_name): an absolute second part discards the first
Root == "/"
Join(d, n) ==
    IF n # <<>> /\ n[1] = "/" THEN [dir |-> Root, name |-> n]
    ELSE [dir |-> d, name |-> n]

NoPath == [dir |-> None, name |-> <<>>]

\* the path names an entry of directory d itself, not of a sub- or parent directory
DirectChild(p, d) ==
    /\ p.dir = d
    /\ \A i \in 1..Len(p.name) : p.name[i] # "/"
    /\ p.name \notin {<<>>, <<".">>, <<".", ".">>}

----------------------------------------------------------------------------
(* Exceptions and responses *)

NoExc == [kind |-> "none", status |-> 0, detail |-> ""]

\* HTTPException(status_code=..., detail=...)
HTTPException(status, detail) ==
    [kind |-> "HTTPException", status |-> status, detail |-> detail]

\* any other Exception; detail holds str(e)
Raised(msg) == [kind |-> "Exception", status |-> 0, detail |-> msg]

NoResponse == [status |-> 0, detail |-> "", body |-> <<>>]

\* json.dumps(toc_with_page_number, ensure_ascii=False, indent=2)
Dumps(toc) == <<"json", toc>>

\* Response(content=body, media_type="application/json")
JsonResponse(toc) == [status |-> 200, detail |-> "", body |-> Dumps(toc)]

\* what the framework sends for the handler's pending return value or exception
Pending(e, rv) ==
    CASE e.kind = "HTTPException" ->
            [status |-> e.status, detail |-> e.detail, body |-> <<>>]
      [] e.kind = "Exception" ->
            [status |-> 500, detail |-> "Internal Server Error", body |-> <<>>]
      [] OTHER -> rv

\* messages of the exceptions the environment raises
Msgs == {"e1", "e2"}

\* results page_index_main returns
Tocs == {"toc1", "toc2"}

\* bodies of the uploads
Bodies == {<<1>>, <<2, 1>>}

\* names mkdtemp(prefix="pageindex_") can pick
DirNames == {"pageindex_a", "pageindex_b"}

Named(text) == [present |-> TRUE, text |-> text]
NoFilename == [present |-> FALSE, text |-> <<>>]

\* filenames of the uploads of Spec
Filenames ==
    { NoFilename,
      Named(<<>>),
      Named(<<"a", ".", "t", "x", "t">>),
      Named(<<"a", ".", "p", "d", "f">>),
      Named(<<"A", ".", "P", "D", "F">>),
      Named(<<"a", "/", "b", ".", "p", "d", "f">>) }

Uploads == { [name |-> f, body |-> b] : f \in Filenames, b \in Bodies }
NoUpload == [name |-> NoFilename, body |-> <<>>]

NotSeen == [read |-> FALSE, found |-> FALSE, data |-> <<>>]

\* history of a request: file.read() called, directories created, engine
\* invoked, message of the exception raised in the try block, cleanup begun,
\* cleanup warning logged, outcome pending when the cleanup began
NoHist == [read_called |-> FALSE, made |-> 0, invoked |-> FALSE, raised |-> "",
           warned |-> FALSE, cleanup |-> FALSE, outcome |-> NoResponse]

----------------------------------------------------------------------------
(* Initial state: no request received, no temporary directory exists *)

Init ==
    /\ pc = [r \in Requests |-> "idle"]
    /\ running = NoRequest
    /\ upload = [r \in Requests |-> NoUpload]
    /\ filename = [r \in Requests |-> <<>>]
    /\ content = [r \in Requests |-> <<>>]
    /\ temp_dir = [r \in Requests |-> None]
    /\ temp_path = [r \in Requests |-> NoPath]
    /\ exc = [r \in Requests |-> NoExc]
    /\ retval = [r \in Requests |-> NoResponse]
    /\ response = [r \in Requests |-> NoResponse]
    /\ dirs = {}
    /\ files = {}
    /\ job = [r \in Requests |-> "none"]
    /\ seen = [r \in Requests |-> NotSeen]
    /\ result = [r \in Requests |-> ""]
    /\ hist = [r \in Requests |-> NoHist]

\* the handler of r raises e inside the outer try
Raise(r, e) ==
    /\ exc' = [exc EXCEPT ![r] = e]
    /\ hist' = [hist EXCEPT ![r].raised = e.detail]
    /\ pc' = [pc EXCEPT ![r] = "except"]

\* a handler suspended at an await leaves the event loop to the other tasks
Await(r) == NoRequest

AwaitFuture_Inline(r) == r

\* awaiting the executor future suspends the handler while the worker thread
\* runs the call
AwaitFuture(r) == Await(r)

----------------------------------------------------------------------------
(* The handler, lines 43-101 *)

\* the event loop starts the handler for a received request (lines 47-49)
Accept(r, up) ==
    /\ pc[r] = "idle"
    /\ running = NoRequest
    /\ running' = r
    /\ upload' = [upload EXCEPT ![r] = up]
    /\ filename' = [filename EXCEPT ![r] = FilenameOrUnknown(up.name)]
    /\ temp_dir' = [temp_dir EXCEPT ![r] = None]
    /\ temp_path' = [temp_path EXCEPT ![r] = NoPath]
    /\ pc' = [pc EXCEPT ![r] = "validate"]
    /\ UNCHANGED <<content, exc, retval, response, dirs, files, job, seen,
                   result, hist>>

\* lines 53-55
Validate(r) ==
    /\ pc[r] = "validate"
    /\ running = r
    /\ IF HasPdfExtension(filename[r])
       THEN /\ pc' = [pc EXCEPT ![r] = "read"]
            /\ UNCHANGED <<exc, hist>>
       ELSE Raise(r, HTTPException(400, "File must have a .pdf extension"))
    /\ UNCHANGED <<running, upload, filename, content, temp_dir, temp_path,
                   retval, response, dirs, files, job, seen, result>>

\* line 58: file.read() is called and the handler awaits it
Read(r) ==
    /\ pc[r] = "read"
    /\ running = r
    /\ hist' = [hist EXCEPT ![r].read_called = TRUE]
    /\ pc' = [pc EXCEPT ![r] = "await_read"]
    /\ running' = Await(r)
    /\ UNCHANGED <<upload, filename, content, temp_dir, temp_path, exc,
                   retval, response, dirs, files, job, seen, result>>

\* lines 58-60: the read completes, with the bytes or an exception
ReadDone(r) ==
    /\ pc[r] = "await_read"
    /\ running = NoRequest
    /\ running' = r
    /\ \/ /\ content' = [content EXCEPT ![r] = upload[r].body]
          /\ pc' = [pc EXCEPT ![r] = "mkdtemp"]
          /\ UNCHANGED <<exc, hist>>
       \/ /\ \E m \in Msgs : Raise(r, Raised(m))
          /\ UNCHANGED content
    /\ UNCHANGED <<upload, filename, temp_dir, temp_path, retval, response,
                   dirs, files, job, seen, result>>

AnyDirs(existing) == DirNames

\* tempfile.mkdtemp: a directory whose name no existing entry has
FreshDirs(existing) == DirNames \ existing

\* line 63
Mkdtemp(r) ==
    /\ pc[r] = "mkdtemp"
    /\ running = r
    /\ \/ /\ \E d \in FreshDirs(dirs) :
                /\ dirs' = dirs \cup {d}
                /\ temp_dir' = [temp_dir EXCEPT ![r] = d]
          /\ hist' = [hist EXCEPT ![r].made = @ + 1]
          /\ pc' = [pc EXCEPT ![r] = "name"]
          /\ UNCHANGED exc
       \/ /\ \E m \in Msgs : Raise(r, Raised(m))
          /\ UNCHANGED <<dirs, temp_dir>>
    /\ UNCHANGED <<running, upload, filename, content, temp_path, retval,
                   response, files, job, seen, result>>

\* lines 65-68
Name(r) ==
    /\ pc[r] = "name"
    /\ running = r
    /\ temp_path' = [temp_path EXCEPT ![r] = Join(temp_dir[r], SafeName(filename[r]))]
    /\ pc' = [pc EXCEPT ![r] = "open"]
    /\ UNCHANGED <<running, upload, filename, content, temp_dir, exc, retval,
                   response, dirs, files, job, seen, result, hist>>

\* os.path.isfile(p)
IsFile(fs, p) == \E f \in fs : f.path = p

\* the bytes of the file at p
DataAt(fs, p) == (CHOOSE f \in fs : f.path = p).data

\* files without path p
WithoutFile(fs, p) == {f \in fs : f.path # p}

\* files with path p holding data
WithFile(fs, p, data) == WithoutFile(fs, p) \cup {[path |-> p, data |-> data]}

\* line 69: open(temp_path, "wb") creates or truncates the file, or raises
Open(r) ==
    /\ pc[r] = "open"
    /\ running = r
    /\ \/ /\ temp_path[r].dir \in dirs
          /\ DirectChild(temp_path[r], temp_path[r].dir)
          /\ files' = WithFile(files, temp_path[r], <<>>)
          /\ pc' = [pc EXCEPT ![r] = "write"]
          /\ UNCHANGED <<exc, hist>>
       \/ /\ \E m \in Msgs : Raise(r, Raised(m))
          /\ UNCHANGED files
    /\ UNCHANGED <<running, upload, filename, content, temp_dir, temp_path,
                   retval, response, dirs, job, seen, result>>

\* lines 69-70: f.write(content) and the close of the with block; a failure
\* leaves a proper prefix of the content in the file
Write(r) ==
    /\ pc[r] = "write"
    /\ running = r
    /\ \/ /\ files' = WithFile(files, temp_path[r], content[r])
          /\ pc' = [pc EXCEPT ![r] = "submit"]
          /\ UNCHANGED <<exc, hist>>
       \/ /\ \E k \in 0..(Len(content[r]) - 1) :
                files' = WithFile(files, temp_path[r], SubSeq(content[r], 1, k))
          /\ \E m \in Msgs : Raise(r, Raised(m))
    /\ UNCHANGED <<running, upload, filename, content, temp_dir, temp_path,
                   retval, response, dirs, job, seen, result>>

\* lines 72-80: the call is handed to the executor and the handler awaits it
Submit(r) ==
    /\ pc[r] = "submit"
    /\ running = r
    /\ job' = [job EXCEPT ![r] = "queued"]
    /\ hist' = [hist EXCEPT ![r].invoked = TRUE]
    /\ pc' = [pc EXCEPT ![r] = "await_engine"]
    /\ running' = AwaitFuture(r)
    /\ UNCHANGED <<upload, filename, content, temp_dir, temp_path, exc,
                   retval, response, dirs, files, seen, result>>

----------------------------------------------------------------------------
(* page_index_main(temp_path, _opt) on the executor's worker thread *)

\* the worker reads the document at the path it was given
EngineRead(r) ==
    /\ job[r] = "queued"
    /\ job' = [job EXCEPT ![r] = "read"]
    /\ seen' = [seen EXCEPT ![r] =
                  IF IsFile(files, temp_path[r])
                  THEN [read |-> TRUE, found |-> TRUE, data |-> DataAt(files, temp_path[r])]
                  ELSE [read |-> TRUE, found |-> FALSE, data |-> <<>>]]
    /\ UNCHANGED <<pc, running, upload, filename, content, temp_dir, temp_path,
                   exc, retval, response, dirs, files, result, hist>>

\* page_index_main returns a structure
EngineReturn(r) ==
    /\ job[r] = "read"
    /\ \E toc \in Tocs : result' = [result EXCEPT ![r] = toc]
    /\ job' = [job EXCEPT ![r] = "returned"]
    /\ UNCHANGED <<pc, running, upload, filename, content, temp_dir, temp_path,
                   exc, retval, response, dirs, files, seen, hist>>

\* page_index_main raises
EngineRaise(r) ==
    /\ job[r] \in {"queued", "read"}
    /\ \E m \in Msgs : result' = [result EXCEPT ![r] = m]
    /\ job' = [job EXCEPT ![r] = "raised"]
    /\ UNCHANGED <<pc, running, upload, filename, content, temp_dir, temp_path,
                   exc, retval, response, dirs, files, seen, hist>>

----------------------------------------------------------------------------
(* The handler after the executor future completes *)

FutureDone_NotAwaited(j) == j # "none"

\* the future of run_in_executor is done once the call returned or raised
FutureDone(j) == j \in {"returned", "raised"}

\* lines 78-83: the await ends with the value or the exception of the call
Resume(r) ==
    /\ pc[r] = "await_engine"
    /\ running = NoRequest
    /\ FutureDone(job[r])
    /\ running' = r
    /\ IF job[r] = "raised"
       THEN Raise(r, Raised(result[r]))
       ELSE /\ pc' = [pc EXCEPT ![r] = "respond"]
            /\ UNCHANGED <<exc, hist>>
    /\ UNCHANGED <<upload, filename, content, temp_dir, temp_path, retval,
                   response, dirs, files, job, seen, result>>

\* lines 85-87
Respond(r) ==
    /\ pc[r] = "respond"
    /\ running = r
    /\ retval' = [retval EXCEPT ![r] = JsonResponse(result[r])]
    /\ pc' = [pc EXCEPT ![r] = "finally"]
    /\ UNCHANGED <<running, upload, filename, content, temp_dir, temp_path,
                   exc, response, dirs, files, job, seen, result, hist>>

\* lines 89-93: an HTTPException passes, any other Exception becomes a 500
\* whose detail is str(e)
Translate_Generic(e) ==
    IF e.kind = "HTTPException" THEN e
    ELSE HTTPException(500, "Internal Server Error")

Translate(e) ==
    IF e.kind = "HTTPException" THEN e ELSE HTTPException(500, e.detail)

Except(r) ==
    /\ pc[r] = "except"
    /\ running = r
    /\ exc' = [exc EXCEPT ![r] = Translate(exc[r])]
    /\ pc' = [pc EXCEPT ![r] = "finally"]
    /\ UNCHANGED <<running, upload, filename, content, temp_dir, temp_path,
                   retval, response, dirs, files, job, seen, result, hist>>

NeedsCleanup_Never(td, ds) == FALSE

\* line 95: temp_dir and os.path.isdir(temp_dir)
NeedsCleanup(td, ds) == td # None /\ td \in ds

\* lines 94-95: the finally block starts; the outcome of the request is pending
Finally(r) ==
    /\ pc[r] = "finally"
    /\ running = r
    /\ hist' = [hist EXCEPT ![r].outcome = Pending(exc[r], retval[r]),
                            ![r].cleanup = TRUE]
    /\ pc' = [pc EXCEPT ![r] =
                IF NeedsCleanup(temp_dir[r], dirs) THEN "unlink" ELSE "return"]
    /\ UNCHANGED <<running, upload, filename, content, temp_dir, temp_path,
                   exc, retval, response, dirs, files, job, seen, result>>

\* lines 100-101: the OSError of a removal is logged, and the pending
\* exception or return value stays as it was
CatchOSError_Propagates(e, m) == Raised(m)

CatchOSError(e, m) == e

\* lines 96-98
Unlink(r) ==
    /\ pc[r] = "unlink"
    /\ running = r
    /\ IF temp_path[r] # NoPath /\ IsFile(files, temp_path[r])
       THEN \/ /\ files' = WithoutFile(files, temp_path[r])
               /\ pc' = [pc EXCEPT ![r] = "rmdir"]
               /\ UNCHANGED <<exc, hist>>
            \/ /\ \E m \in Msgs : exc' = [exc EXCEPT ![r] = CatchOSError(exc[r], m)]
               /\ hist' = [hist EXCEPT ![r].warned = TRUE]
               /\ pc' = [pc EXCEPT ![r] = "return"]
               /\ UNCHANGED files
       ELSE /\ pc' = [pc EXCEPT ![r] = "rmdir"]
            /\ UNCHANGED <<files, exc, hist>>
    /\ UNCHANGED <<running, upload, filename, content, temp_dir, temp_path,
                   retval, response, dirs, job, seen, result>>

\* os.rmdir removes an empty directory only
IsEmptyDir(fs, d) == \A f \in fs : f.path.dir # d

RemoveDir_Skipped(ds, d) == ds

\* the directories left by os.rmdir(d)
RemoveDir(ds, d) == ds \ {d}

\* line 99
Rmdir(r) ==
    /\ pc[r] = "rmdir"
    /\ running = r
    /\ \/ /\ IsEmptyDir(files, temp_dir[r])
          /\ dirs' = RemoveDir(dirs, temp_dir[r])
          /\ UNCHANGED <<exc, hist>>
       \/ /\ \E m \in Msgs : exc' = [exc EXCEPT ![r] = CatchOSError(exc[r], m)]
          /\ hist' = [hist EXCEPT ![r].warned = TRUE]
          /\ UNCHANGED dirs
    /\ pc' = [pc EXCEPT ![r] = "return"]
    /\ UNCHANGED <<running, upload, filename, content, temp_dir, temp_path,
                   retval, response, files, job, seen, result>>

\* the handler ends: the framework sends the return value or the exception
Return(r) ==
    /\ pc[r] = "return"
    /\ running = r
    /\ response' = [response EXCEPT ![r] = Pending(exc[r], retval[r])]
    /\ pc' = [pc EXCEPT ![r] = "done"]
    /\ running' = NoRequest
    /\ UNCHANGED <<upload, filename, content, temp_dir, temp_path, exc,
                   retval, dirs, files, job, seen, result, hist>>

----------------------------------------------------------------------------
(* Specifications *)

Handler(r) ==
    \/ Validate(r) \/ Read(r) \/ ReadDone(r) \/ Mkdtemp(r) \/ Name(r)
    \/ Open(r) \/ Write(r) \/ Submit(r) \/ Resume(r) \/ Respond(r)
    \/ Except(r) \/ Finally(r) \/ Unlink(r) \/ Rmdir(r) \/ Return(r)

Engine(r) == EngineRead(r) \/ EngineReturn(r) \/ EngineRaise(r)

Next ==
    \E r \in Requests :
        \/ \E up \in Uploads : Accept(r, up)
        \/ Handler(r)
        \/ Engine(r)

Spec == Init /\ [][Next]_vars

\* One request at a time, its filename any stem of at most MaxStemLen
\* characters followed by one of the suffixes
StemChars == {"a", "A", "_", " ", "."} \cup Unsafe
Stems == UNION { [1..k -> StemChars] : k \in 0..MaxStemLen }
Suffixes == { <<>>, DotPdf, <<".", "P", "D", "F">>, <<".", "P", "d", "f">>,
              <<".", "t", "x", "t">>, <<"p", "d", "f">> }
SanUploads ==
    { [name |-> f, body |-> <<2, 1>>] :
        f \in {NoFilename} \cup { Named(st \o su) : st \in Stems, su \in Suffixes } }

NextSan ==
    \/ \E up \in SanUploads : Accept("r1", up)
    \/ Handler("r1")
    \/ Engine("r1")

SpecSan == Init /\ [][NextSan]_vars

----------------------------------------------------------------------------
(* Vocabulary of the properties *)

Received(r) == pc[r] # "idle"
InFlight(r) == pc[r] \notin {"idle", "done"}

\* run() is about to return or raise: the finally block is over
Leaving(r) == pc[r] = "return"

\* the filename the client gave, "unknown" standing for none
GivenName(r) ==
    LET f == upload[r].name
    IN  IF f.present /\ f.text # <<>> THEN f.text
        ELSE <<"u", "n", "k", "n", "o", "w", "n">>

\* the name ends in ".pdf", compared without regard to case
EndsInPdf(n) ==
    /\ Len(n) >= 4
    /\ n[Len(n) - 3] = "."
    /\ n[Len(n) - 2] \in {"p", "P"}
    /\ n[Len(n) - 1] \in {"d", "D"}
    /\ n[Len(n)] \in {"f", "F"}

ValidUpload(r) == Received(r) /\ EndsInPdf(GivenName(r))

\* only alphanumerics, dots, underscores, hyphens and spaces
OnlyAllowed(n) == \A i \in 1..Len(n) : n[i] \in Letters \cup Digits \cup {".", "_", "-", " "}

\* the temporary directory of r and everything in it are gone
Removed(r) ==
    /\ temp_dir[r] \notin dirs
    /\ \A f \in files : f.path.dir # temp_dir[r] /\ f.path # temp_path[r]

\* the staged file of r is on disk with exactly the bytes uploaded
StagedIntact(r) ==
    \E f \in files : f.path = temp_path[r] /\ f.data = upload[r].body

ServerError(msg) == [status |-> 500, detail |-> msg, body |-> <<>>]

\* page_index_main was called and has neither returned nor raised
Extracting(r) == job[r] \in {"queued", "read"}

\* a valid upload whose handling ended before the engine was invoked
StagingFailed(r) == ValidUpload(r) /\ hist[r].cleanup /\ ~hist[r].invoked

----------------------------------------------------------------------------
(* Properties *)

\* C1, as stated: a valid upload creates exactly one temporary directory, and
\* when run() returns or raises the directory and its contents are gone
C1_Original ==
    \A r \in Requests :
        Leaving(r) /\ ValidUpload(r) => hist[r].made = 1 /\ Removed(r)

\* C1, amended: a valid upload creates at most one temporary directory (none
\* only when file.read() or mkdtemp raised), and when run() returns or raises
\* the directory and its contents are gone unless a removal failed and was
\* logged
C1_Amended ==
    \A r \in Requests :
        Leaving(r) /\ ValidUpload(r) =>
            /\ hist[r].made <= 1
            /\ hist[r].made = 0 =>
                    temp_dir[r] = None /\ ~hist[r].invoked /\ hist[r].raised \in Msgs
            /\ ~hist[r].warned => Removed(r)

C1_Witness ==
    \E r \in Requests :
        /\ Leaving(r) /\ ValidUpload(r)
        /\ hist[r].made = 1 /\ ~hist[r].warned
        /\ temp_dir[r] # None /\ retval[r].status = 200

\* C2: an upload whose filename (or "unknown") does not end in ".pdf" is
\* answered 400 "File must have a .pdf extension" with no side effect: the
\* body is not read, no directory or file is created, the engine is not invoked
C2_Rejected ==
    \A r \in Requests :
        Received(r) /\ ~EndsInPdf(GivenName(r)) =>
            /\ ~hist[r].read_called
            /\ hist[r].made = 0
            /\ temp_dir[r] = None /\ temp_path[r] = NoPath
            /\ ~hist[r].invoked /\ job[r] = "none"
            /\ pc[r] \in {"validate", "except", "finally", "return", "done"}
            /\ pc[r] = "done" =>
                    response[r] = [status |-> 400,
                                   detail |-> "File must have a .pdf extension",
                                   body |-> <<>>]

C2_Witness ==
    \E r \in Requests :
        /\ pc[r] = "done"
        /\ ~upload[r].name.present
        /\ response[r].status = 400

C4_Isolated ==
    \A r \in Requests :
        /\ \A s \in Requests \ {r} :
              InFlight(r) /\ InFlight(s) /\ temp_dir[r] # None /\ temp_dir[s] # None =>
                  /\ temp_dir[r] # temp_dir[s]
                  /\ temp_path[r] = NoPath \/ temp_path[r] # temp_path[s]
        /\ hist[r].invoked /\ InFlight(r) /\ pc[r] \notin {"rmdir", "return"} =>
              StagedIntact(r)
        /\ seen[r].read => seen[r].found /\ seen[r].data = upload[r].body
        /\ pc[r] = "done" /\ job[r] = "returned" =>
              response[r] = [status |-> 200, detail |-> "", body |-> <<"json", result[r]>>]

C4_Witness ==
    /\ \A r \in Requests : pc[r] = "await_engine" /\ job[r] = "returned"
    /\ upload["r1"].name = upload["r2"].name
    /\ upload["r1"].body # upload["r2"].body

\* C5: a filename made only of alphanumerics, dots, underscores, hyphens and
\* spaces is the name of the staged file; any other filename is replaced by
\* "upload.pdf"
C5_Claim ==
    \A r \in Requests :
        temp_path[r] # NoPath =>
            temp_path[r].name =
                IF OnlyAllowed(filename[r]) THEN filename[r]
                ELSE <<"u", "p", "l", "o", "a", "d", ".", "p", "d", "f">>

\* C6: the name of the staged file ends in ".pdf" (without regard to case)
\* and holds only alphanumerics, dots, underscores, hyphens and spaces, so the
\* staged path is a direct child of the request's temporary directory
C6_SafeName ==
    \A r \in Requests :
        temp_path[r] # NoPath =>
            /\ EndsInPdf(temp_path[r].name)
            /\ OnlyAllowed(temp_path[r].name)
            /\ temp_path[r].dir = temp_dir[r]
            /\ DirectChild(temp_path[r], temp_dir[r])

C6_Witness ==
    \E r \in Requests :
        /\ \E i \in 1..Len(filename[r]) : filename[r][i] = "/"
        /\ \E f \in files : f.path = temp_path[r] /\ f.path.dir = temp_dir[r]

\* C7, as stated: a failure while staging a valid upload yields a 500 whose
\* detail is the exception's message, the engine is never invoked, and the
\* directory and partial file already created are removed
C7_Original ==
    \A r \in Requests :
        Leaving(r) /\ StagingFailed(r) =>
            /\ hist[r].raised \in Msgs
            /\ Pending(exc[r], retval[r]) = ServerError(hist[r].raised)
            /\ job[r] = "none"
            /\ Removed(r)

\* C7, amended: a failure while staging a valid upload yields a 500 whose
\* detail is the exception's message, the engine is never invoked, and the
\* directory and partial file already created are removed unless a removal
\* failed and was logged
C7_Amended ==
    \A r \in Requests :
        /\ Leaving(r) /\ StagingFailed(r) =>
              /\ hist[r].raised \in Msgs
              /\ Pending(exc[r], retval[r]) = ServerError(hist[r].raised)
              /\ job[r] = "none"
              /\ ~hist[r].warned => Removed(r)
        /\ pc[r] = "done" /\ StagingFailed(r) =>
              response[r] = ServerError(hist[r].raised)

C7_Witness ==
    \E r \in Requests :
        /\ pc[r] = "done" /\ StagingFailed(r)
        /\ hist[r].made = 1 /\ temp_path[r] # NoPath
        /\ ~hist[r].warned
        /\ response[r].status = 500

\* C8: a failed removal does not change the outcome of the request: from the
\* start of the cleanup on, the pending response is the one determined before
\* it, that response is what the client receives, and no exception of the
\* cleanup reaches the caller
C8_OutcomeKept ==
    \A r \in Requests :
        /\ pc[r] \in {"unlink", "rmdir", "return"} =>
              Pending(exc[r], retval[r]) = hist[r].outcome
        /\ pc[r] = "done" =>
              response[r] = hist[r].outcome /\ exc[r].kind # "Exception"

C8_Witness ==
    \E r \in Requests :
        /\ pc[r] = "done" /\ hist[r].warned
        /\ response[r].status = 200
        /\ temp_dir[r] \in dirs

\* C9: within a request, while page_index_main is in progress the handler is
\* suspended at the await, the staged file holds exactly the uploaded bytes,
\* and the cleanup has not begun; the cleanup begins only once the call has
\* returned or raised
C9_Ordering ==
    \A r \in Requests :
        /\ Extracting(r) =>
              /\ pc[r] = "await_engine"
              /\ ~hist[r].cleanup
              /\ StagedIntact(r)
        /\ hist[r].cleanup => job[r] \in {"none", "returned", "raised"}
        /\ pc[r] \in {"unlink", "rmdir"} /\ hist[r].invoked =>
              job[r] \in {"returned", "raised"}

C9_Witness ==
    \E r \in Requests : \E s \in Requests \ {r} :
        /\ job[r] = "read"
        /\ pc[s] = "return" /\ hist[s].invoked /\ ~hist[s].warned

\* C10, as stated: awaiting the executor is the only point where a handler
\* is suspended
C10_Original ==
    \A r \in Requests :
        InFlight(r) /\ running # r => pc[r] = "await_engine"

\* C10, amended: a handler is suspended only at its two awaits, file.read()
\* and the executor future, and while page_index_main is in progress its
\* handler does not hold the event loop, so another request can be accepted,
\* validated and answered meanwhile
C10_Amended ==
    \A r \in Requests :
        /\ InFlight(r) /\ running # r => pc[r] \in {"await_read", "await_engine"}
        /\ Extracting(r) => running # r

C10_Witness ==
    \E r \in Requests : \E s \in Requests \ {r} :
        /\ Extracting(r)
        /\ running = s /\ pc[s] = "return"
        /\ ~hist[s].read_called
        /\ Pending(exc[s], retval[s]).status = 400

====
